---- MODULE Spec2Model ----
(***************************************************************************)
(* Model of the Screen-Exposure Impact Predictor (src/src/App.tsx).       *)
(*                                                                         *)
(* Units.  The only fractional quantity in the scorer is the 1.5 point    *)
(* excessive-use penalty, and the duration / maternalScreenTime inputs    *)
(* step by 0.5 hour.  So that all arithmetic is exact integer arithmetic, *)
(* sub-scores are held in HALF-POINTS (5 points = 10, 10 points = 20) and *)
(* duration / maternalScreenTime in HALF-HOURS (2 hours = 4).  frequency, *)
(* age and backgroundFreq are plain integers.  Every value the code can   *)
(* produce is a multiple of 0.5 below 2^53, so the JavaScript doubles are *)
(* exact and the scaled integers describe them faithfully; avg = sum / 6  *)
(* is compared by cross-multiplication (avg > 7  <=>  sum > 42 points).   *)
(***************************************************************************)
EXTENDS Integers, FiniteSets, Sequences, TLC

VARIABLES
    results,    \* useState value: Null or [scores, harmLevel, suggestions]
    data,       \* the record handed to the latest onSubmit call (Null before)
    unclamped,  \* the local accumulator `scores` of that call just before the clamp
    submitted,  \* the form contents of the submit event behind that call (Null if none)
    memo        \* history of the submissions of each reference input

vars == <<results, data, unclamped, submitted, memo>>

\* useState(null)
Null == [null |-> TRUE]

----------------------------------------------------------------------------
(* Bounds and input domains *)

\* radius of the neighbourhood explored around every numeric threshold
Spread == 1

Near(t) == (t - Spread)..(t + Spread)

ContentTypes == {"educational", "non-educational", "background", "interactive"}
ParentalInvolvements == {"instructive", "co-viewing", "unmediated"}
YesNo == {"yes", "no"}
Keys == {"vocabulary", "mentalVerb", "expressive", "verbalInteraction",
         "sentenceComp", "socialLang"}

\* numeric values fed directly to the scorer (including out-of-range ones)
Durations == {-1, 2, 8} \cup Near(4)        \* half-hours: -0.5h, 1h, 4h, around 2h
Frequencies == {3, 10} \cup Near(7)
Ages == {8, 24, 48} \cup Near(12) \cup Near(36)
BackgroundFreqs == {0, 5} \cup Near(3)
MaternalTimes == {2, 12} \cup Near(8)       \* half-hours: 1h, 6h, around 4h

FormValues ==
    [contentType : ContentTypes, duration : Durations, frequency : Frequencies,
     age : Ages, parentalInvolvement : ParentalInvolvements,
     simultaneousUse : YesNo, backgroundFreq : BackgroundFreqs,
     maternalScreenTime : MaternalTimes, maternalMentalHealth : YesNo]

----------------------------------------------------------------------------
(* The scorer: onSubmit, App.tsx 67-161 *)

\* stale accumulator: the previous call's scores are reused
StaleScores ==
    IF results = Null THEN [k \in Keys |-> 10] ELSE results.scores

\* 71-78: a fresh accumulator, every sub-score neutral (5 points)
NeutralScores ==
    [k \in Keys |-> 10]

\* Object.keys(scores).forEach(k => scores[k] += delta)
AddToAll(s, delta) == [k \in DOMAIN s |-> s[k] + delta]

\* educational and non-educational rows exchanged
ContentTypeAdjSwapped(s, d) ==
    CASE d.contentType = "non-educational" ->
            [s EXCEPT !.vocabulary = @ + 4, !.mentalVerb = @ + 4, !.sentenceComp = @ + 2]
      [] d.contentType = "educational" ->
            [s EXCEPT !.vocabulary = @ - 4, !.expressive = @ - 2, !.socialLang = @ - 2]
      [] d.contentType = "background" ->
            [s EXCEPT !.verbalInteraction = @ - 6, !.expressive = @ - 4, !.socialLang = @ - 4]
      [] d.contentType = "interactive" ->
            [s EXCEPT !.expressive = @ + 2, !.socialLang = @ + 4, !.mentalVerb = @ + 2]
      [] OTHER -> s

\* 84-105: switch (data.contentType)
ContentTypeAdj(s, d) ==
    CASE d.contentType = "educational" ->
            [s EXCEPT !.vocabulary = @ + 4, !.mentalVerb = @ + 4, !.sentenceComp = @ + 2]
      [] d.contentType = "non-educational" ->
            [s EXCEPT !.vocabulary = @ - 4, !.expressive = @ - 2, !.socialLang = @ - 2]
      [] d.contentType = "background" ->
            [s EXCEPT !.verbalInteraction = @ - 6, !.expressive = @ - 4, !.socialLang = @ - 4]
      [] d.contentType = "interactive" ->
            [s EXCEPT !.expressive = @ + 2, !.socialLang = @ + 4, !.mentalVerb = @ + 2]
      [] OTHER -> s

\* instructive mediation adds 3 points instead of 2
ParentalAdjStrong(s, d) ==
    CASE d.parentalInvolvement = "instructive" -> AddToAll(s, 6)
      [] d.parentalInvolvement = "co-viewing" ->
            [s EXCEPT !.verbalInteraction = @ + 4, !.expressive = @ + 2]
      [] d.parentalInvolvement = "unmediated" -> AddToAll(s, -4)
      [] OTHER -> s

\* 108-119: switch (data.parentalInvolvement)
ParentalAdj(s, d) ==
    CASE d.parentalInvolvement = "instructive" -> AddToAll(s, 4)
      [] d.parentalInvolvement = "co-viewing" ->
            [s EXCEPT !.verbalInteraction = @ + 4, !.expressive = @ + 2]
      [] d.parentalInvolvement = "unmediated" -> AddToAll(s, -4)
      [] OTHER -> s

\* the under-12 branch is lost
AgeAdjNoInfant(s, d) ==
    IF d.age <= 36 THEN [s EXCEPT !.vocabulary = @ - 2]
    ELSE s

\* 122-126: age thresholds
AgeAdj(s, d) ==
    IF d.age < 12 THEN AddToAll(s, -4)
    ELSE IF d.age <= 36 THEN [s EXCEPT !.vocabulary = @ - 2]
    ELSE s

\* && in place of ||
ExcessiveAdjBoth(s, d) ==
    IF d.duration > 4 /\ d.frequency > 7 THEN AddToAll(s, -3) ELSE s

\* 129-131: excessive use (duration > 2 h is duration > 4 half-hours; 1.5 points = 3)
ExcessiveAdj(s, d) ==
    IF d.duration > 4 \/ d.frequency > 7 THEN AddToAll(s, -3) ELSE s

\* the simultaneous-use test is inverted
ContextAdjInverted(s, d) ==
    LET s1 == IF d.simultaneousUse = "no"
              THEN [s EXCEPT !.verbalInteraction = @ - 2] ELSE s
        s2 == IF d.backgroundFreq > 3
              THEN [s1 EXCEPT !.expressive = @ - 4, !.verbalInteraction = @ - 4] ELSE s1
        s3 == IF d.maternalScreenTime > 8
              THEN [s2 EXCEPT !.socialLang = @ - 2] ELSE s2
    IN  IF d.maternalMentalHealth = "yes"
        THEN [s3 EXCEPT !.mentalVerb = @ - 2] ELSE s3

\* 134-140: contextual factors (maternalScreenTime > 4 h is > 8 half-hours)
ContextAdj(s, d) ==
    LET s1 == IF d.simultaneousUse = "yes"
              THEN [s EXCEPT !.verbalInteraction = @ - 2] ELSE s
        s2 == IF d.backgroundFreq > 3
              THEN [s1 EXCEPT !.expressive = @ - 4, !.verbalInteraction = @ - 4] ELSE s1
        s3 == IF d.maternalScreenTime > 8
              THEN [s2 EXCEPT !.socialLang = @ - 2] ELSE s2
    IN  IF d.maternalMentalHealth = "yes"
        THEN [s3 EXCEPT !.mentalVerb = @ - 2] ELSE s3

Max(a, b) == IF a >= b THEN a ELSE b
Min(a, b) == IF a <= b THEN a ELSE b

\* the lower bound of the clamp is forgotten
ClampNoFloor(s) == [k \in DOMAIN s |-> Min(20, s[k])]

\* 143-146: scores[key] = Math.max(0, Math.min(10, scores[key]))
Clamp(s) == [k \in DOMAIN s |-> Max(0, Min(20, s[k]))]

\* 71-140: the accumulator after every rule, before the clamp
Adjusted(d) ==
    ContextAdj(ExcessiveAdj(AgeAdj(ParentalAdj(ContentTypeAdj(NeutralScores, d), d), d), d), d)

\* Object.values(scores).reduce((a, b) => a + b, 0)
Total(s) ==
    s.vocabulary + s.mentalVerb + s.expressive + s.verbalInteraction
        + s.sentenceComp + s.socialLang

\* >= in place of >
HarmLevelInclusive(s) ==
    IF Total(s) >= 84 THEN "Low"
    ELSE IF Total(s) >= 48 THEN "Medium"
    ELSE "High"

\* 151-152: avg = sum / 6; avg > 7 ? Low : avg > 4 ? Medium : High
\* (sum / 6 > 7 points  <=>  sum > 42 points = 84 half-points; 4 points -> 48)
HarmLevel(s) ==
    IF Total(s) > 84 THEN "Low"
    ELSE IF Total(s) > 48 THEN "Medium"
    ELSE "High"

\* the Medium and Low texts are exchanged
SuggestionsSwapped(h) ==
    IF h = "High"
    THEN "Reduce screen time, focus on mediated educational content, and increase direct interactions."
    ELSE IF h = "Medium"
    THEN "Current setup seems beneficial-continue with educational focus."
    ELSE "Monitor usage; add more parental involvement for better outcomes."

\* 153-158 (the dash of the Low text is written "-" here)
Suggestions(h) ==
    IF h = "High"
    THEN "Reduce screen time, focus on mediated educational content, and increase direct interactions."
    ELSE IF h = "Medium"
    THEN "Monitor usage; add more parental involvement for better outcomes."
    ELSE "Current setup seems beneficial-continue with educational focus."

\* 160: the object passed to setResults
Result(d) ==
    LET scores == Clamp(Adjusted(d))
        harmLevel == HarmLevel(scores)
    IN  [scores |-> scores, harmLevel |-> harmLevel, suggestions |-> Suggestions(harmLevel)]

----------------------------------------------------------------------------
(* Reference inputs *)

ScenarioA ==
    [contentType |-> "educational", duration |-> 2, frequency |-> 3, age |-> 24,
     parentalInvolvement |-> "co-viewing", simultaneousUse |-> "no",
     backgroundFreq |-> 0, maternalScreenTime |-> 2, maternalMentalHealth |-> "no"]

ScenarioB ==
    [contentType |-> "background", duration |-> 8, frequency |-> 10, age |-> 8,
     parentalInvolvement |-> "unmediated", simultaneousUse |-> "yes",
     backgroundFreq |-> 5, maternalScreenTime |-> 12, maternalMentalHealth |-> "yes"]

\* inputs whose first stored result is remembered in memo
RefInputs == {ScenarioA, [ScenarioA EXCEPT !.contentType = "interactive",
                                           !.parentalInvolvement = "instructive"]}

---------------------------------------------------------------------------------------------------------------------------------------------------
(* The form: react-hook-form fields registered at App.tsx 174-238 *)

\* A number input holds text: <<>> is the empty field, <<n>> the text of n.
Empty == <<>>

Below(min) == (min - Spread)..(min - 1)
Above(max) == (max + 1)..(max + Spread)
Text(S) == {<<n>> : n \in S}

RawDurations == {Empty} \cup Text(Below(0) \cup {0, 2, 5})
RawFrequencies == {Empty} \cup Text(Below(0) \cup {0, 3, 8})
RawAges == {Empty} \cup Text(Below(12) \cup {12, 24, 60} \cup Above(60))
RawBackgroundFreqs == {Empty} \cup Text(Below(0) \cup {0, 5} \cup Above(5))
RawMaternalTimes == {Empty} \cup Text(Below(0) \cup {0, 2, 9})

\* the numeric fields as typed by the caregiver: scenario A with at most one
\* of the five number inputs cleared or retyped
BaseNumbers ==
    [duration |-> <<2>>, frequency |-> <<3>>, age |-> <<24>>,
     backgroundFreq |-> <<0>>, maternalScreenTime |-> <<2>>]

RawNumbers ==
    {[BaseNumbers EXCEPT !.duration = v] : v \in RawDurations}
    \cup {[BaseNumbers EXCEPT !.frequency = v] : v \in RawFrequencies}
    \cup {[BaseNumbers EXCEPT !.age = v] : v \in RawAges}
    \cup {[BaseNumbers EXCEPT !.backgroundFreq = v] : v \in RawBackgroundFreqs}
    \cup {[BaseNumbers EXCEPT !.maternalScreenTime = v] : v \in RawMaternalTimes}

RawForms ==
    {[contentType |-> c, duration |-> n.duration, frequency |-> n.frequency,
      age |-> n.age, parentalInvolvement |-> p, simultaneousUse |-> u,
      backgroundFreq |-> n.backgroundFreq,
      maternalScreenTime |-> n.maternalScreenTime, maternalMentalHealth |-> m] :
        c \in ContentTypes, p \in ParentalInvolvements, u \in YesNo, m \in YesNo,
        n \in RawNumbers}

\* JavaScript's string-to-number coercion in the comparisons of onSubmit
\* (Number("") is 0)
Num(x) == IF x = Empty THEN 0 ELSE x[1]

\* the record onSubmit works on
ToValues(raw) ==
    [contentType |-> raw.contentType, duration |-> Num(raw.duration),
     frequency |-> Num(raw.frequency), age |-> Num(raw.age),
     parentalInvolvement |-> raw.parentalInvolvement,
     simultaneousUse |-> raw.simultaneousUse,
     backgroundFreq |-> Num(raw.backgroundFreq),
     maternalScreenTime |-> Num(raw.maternalScreenTime),
     maternalMentalHealth |-> raw.maternalMentalHealth]

\* 56-65: every watched value is falsy
isFormEmpty(raw) ==
    /\ raw.contentType = ""
    /\ raw.duration = Empty
    /\ raw.frequency = Empty
    /\ raw.age = Empty
    /\ raw.parentalInvolvement = ""
    /\ raw.simultaneousUse = ""
    /\ raw.backgroundFreq = Empty
    /\ raw.maternalScreenTime = Empty
    /\ raw.maternalMentalHealth = ""

\* register(name, {required: true, min, max})
Required(x) == x # Empty
AtLeast(x, min) == x = Empty \/ x[1] >= min
AtMost(x, max) == x = Empty \/ x[1] <= max

\* the lower bound of the age rule is dropped
ValidNoAgeMin(raw) ==
    /\ raw.contentType # ""
    /\ Required(raw.duration) /\ AtLeast(raw.duration, 0)
    /\ Required(raw.frequency) /\ AtLeast(raw.frequency, 0)
    /\ Required(raw.age) /\ AtMost(raw.age, 60)
    /\ raw.parentalInvolvement # ""
    /\ raw.simultaneousUse # ""
    /\ Required(raw.backgroundFreq) /\ AtLeast(raw.backgroundFreq, 0)
        /\ AtMost(raw.backgroundFreq, 5)
    /\ Required(raw.maternalScreenTime) /\ AtLeast(raw.maternalScreenTime, 0)
    /\ raw.maternalMentalHealth # ""

\* 174, 187, 191, 201, 209, 220, 228, 233, 238: the rules handleSubmit enforces
Valid(raw) ==
    /\ raw.contentType # ""
    /\ Required(raw.duration) /\ AtLeast(raw.duration, 0)
    /\ Required(raw.frequency) /\ AtLeast(raw.frequency, 0)
    /\ Required(raw.age) /\ AtLeast(raw.age, 12) /\ AtMost(raw.age, 60)
    /\ raw.parentalInvolvement # ""
    /\ raw.simultaneousUse # ""
    /\ Required(raw.backgroundFreq) /\ AtLeast(raw.backgroundFreq, 0)
        /\ AtMost(raw.backgroundFreq, 5)
    /\ Required(raw.maternalScreenTime) /\ AtLeast(raw.maternalScreenTime, 0)
    /\ raw.maternalMentalHealth # ""

----------------------------------------------------------------------------
(* State machine *)

Init ==
    /\ results = Null
    /\ data = Null
    /\ unclamped = Null
    /\ submitted = Null
    /\ memo = [r \in RefInputs |-> Null]

\* history bookkeeping for one reference input r when d is submitted
Remember(r, d) ==
    IF memo[r] = Null
    THEN IF d = r
         THEN [result |-> Result(d), interleaved |-> FALSE, repeated |-> FALSE]
         ELSE Null
    ELSE IF d = r
         THEN [memo[r] EXCEPT !.repeated = @ \/ memo[r].interleaved]
         ELSE [memo[r] EXCEPT !.interleaved = TRUE]

\* 67-161: onSubmit(data)
OnSubmit(d) ==
    /\ data' = d
    /\ unclamped' = Adjusted(d)
    /\ results' = Result(d)
    /\ memo' = [r \in RefInputs |-> Remember(r, d)]

\* the scorer applied once to an arbitrary typed record
Score ==
    /\ results = Null
    /\ \E d \in FormValues :
        /\ OnSubmit(d)
        /\ submitted' = Null

\* 170, 245-256: the submit event of the form; the button is disabled while
\* the form is empty, and handleSubmit calls onSubmit only when every
\* registered rule holds
HandleSubmit ==
    \E raw \in RawForms :
        /\ ~isFormEmpty(raw)
        /\ IF Valid(raw)
           THEN /\ OnSubmit(ToValues(raw))
                /\ submitted' = raw
           ELSE UNCHANGED vars

Next == Score

Spec == Init /\ [][Next]_vars

NextApp == HandleSubmit

SpecApp == Init /\ [][NextApp]_vars

----------------------------------------------------------------------------
(* Properties *)

Scored == results # Null

\* C1: every stored sub-score lies in [0, 10] points, for every input record,
\* in range or not.
SubScoresInRange ==
    Scored => \A k \in Keys : results.scores[k] >= 0 /\ results.scores[k] <= 20

\* an out-of-range record (age < 12, negative duration) whose accumulator went
\* below zero has been scored
OutOfRangeScored ==
    /\ Scored
    /\ data.age < 12
    /\ data.duration < 0
    /\ \E k \in Keys : unclamped[k] < 0 /\ results.scores[k] = 0

\* sum of the six stored sub-scores, in half-points
StoredSum ==
    results.scores.vocabulary + results.scores.mentalVerb + results.scores.expressive
        + results.scores.verbalInteraction + results.scores.sentenceComp
        + results.scores.socialLang

\* C2: harmLevel is Low iff the mean of the clamped sub-scores is > 7, Medium
\* iff it is in (4, 7], High iff it is <= 4 (mean 7 -> Medium, mean 4 -> High).
HarmLevelFromMean ==
    Scored =>
        /\ results.harmLevel \in {"Low", "Medium", "High"}
        /\ (results.harmLevel = "Low") <=> (StoredSum > 6 * 14)
        /\ (results.harmLevel = "Medium") <=> (StoredSum > 6 * 8 /\ StoredSum <= 6 * 14)
        /\ (results.harmLevel = "High") <=> (StoredSum <= 6 * 8)

\* a record whose mean is exactly 7.0 has been scored
MeanExactlySeven == Scored /\ StoredSum = 6 * 14 /\ results.harmLevel = "Medium"

\* a record whose mean is exactly 4.0 has been scored
MeanExactlyFour == Scored /\ StoredSum = 6 * 8 /\ results.harmLevel = "High"

\* the adjustment tables of the specification, in half-points
Row(r, k) == IF k \in DOMAIN r THEN r[k] ELSE 0

ContentRows ==
    [educational |-> [vocabulary |-> 4, mentalVerb |-> 4, sentenceComp |-> 2],
     background |-> [verbalInteraction |-> -6, expressive |-> -4, socialLang |-> -4],
     interactive |-> [expressive |-> 2, socialLang |-> 4, mentalVerb |-> 2]]

NonEducationalRow == [vocabulary |-> -4, expressive |-> -2, socialLang |-> -2]

ContentDelta(d, k) ==
    IF d.contentType = "non-educational" THEN Row(NonEducationalRow, k)
    ELSE Row(ContentRows[d.contentType], k)

ParentalDelta(d, k) ==
    IF d.parentalInvolvement = "instructive" THEN 4
    ELSE IF d.parentalInvolvement = "unmediated" THEN -4
    ELSE Row([verbalInteraction |-> 4, expressive |-> 2], k)

AgeDelta(d, k) ==
    IF d.age < 12 THEN -4
    ELSE IF d.age >= 12 /\ d.age <= 36 /\ k = "vocabulary" THEN -2
    ELSE 0

ExcessiveDelta(d) == IF d.duration > 4 \/ d.frequency > 7 THEN -3 ELSE 0

ContextDelta(d, k) ==
    (IF d.simultaneousUse = "yes" /\ k = "verbalInteraction" THEN -2 ELSE 0)
    + (IF d.backgroundFreq > 3 /\ k \in {"expressive", "verbalInteraction"} THEN -4 ELSE 0)
    + (IF d.maternalScreenTime > 8 /\ k = "socialLang" THEN -2 ELSE 0)
    + (IF d.maternalMentalHealth = "yes" /\ k = "mentalVerb" THEN -2 ELSE 0)

SpecValue(d, k) ==
    10 + ContentDelta(d, k) + ParentalDelta(d, k) + AgeDelta(d, k)
       + ExcessiveDelta(d) + ContextDelta(d, k)

\* C3: each stored sub-score is clamp[0,10] of 5 plus the sum of the deltas of
\* the specification's tables for that sub-score.
ScoresMatchTables ==
    Scored =>
        \A k \in Keys :
            LET v == SpecValue(data, k)
            IN  results.scores[k] = IF v < 0 THEN 0 ELSE IF v > 20 THEN 20 ELSE v

\* the age rule and the excessive-use rule fire together, on top of a
\* contextual rule, and no score is clamped
RulesFireTogether ==
    /\ Scored
    /\ data.age < 12
    /\ data.duration <= 4 /\ data.frequency > 7
    /\ data.backgroundFreq > 3
    /\ \A k \in Keys : unclamped[k] > 0

\* C4: the stored result depends only on the latest submission's input: any
\* later submission of a reference input stores what its first submission stored.
SameInputSameResult ==
    \A r \in RefInputs : (data = r /\ memo[r] # Null) => results = memo[r].result

\* a reference input has been submitted again after a different submission
ResubmittedAfterOther ==
    /\ data = ScenarioA
    /\ memo[ScenarioA] # Null
    /\ memo[ScenarioA].repeated

\* the stored scores the same record gets with contentType educational
AsEducational == Result([data EXCEPT !.contentType = "educational"]).scores

\* C5: switching contentType from background to educational, other fields
\* fixed, never decreases vocabulary, mentalVerb or sentenceComp.
EducationalNotWorse ==
    (Scored /\ data.contentType = "background") =>
        /\ AsEducational.vocabulary >= results.scores.vocabulary
        /\ AsEducational.mentalVerb >= results.scores.mentalVerb
        /\ AsEducational.sentenceComp >= results.scores.sentenceComp

\* a background record has been scored whose three sub-scores all rise
BackgroundScored ==
    /\ Scored
    /\ data.contentType = "background"
    /\ AsEducational.vocabulary > results.scores.vocabulary
    /\ AsEducational.mentalVerb > results.scores.mentalVerb
    /\ AsEducational.sentenceComp > results.scores.sentenceComp

\* C6: in the app, a stored result was computed from a form that passed
\* validation: nine populated fields, duration, frequency and
\* maternalScreenTime >= 0, 12 <= age <= 60, 0 <= backgroundFreq <= 5.
OnlyValidatedRecords ==
    Scored =>
        /\ submitted # Null
        /\ submitted.contentType # "" /\ submitted.parentalInvolvement # ""
        /\ submitted.simultaneousUse # "" /\ submitted.maternalMentalHealth # ""
        /\ submitted.duration # <<>> /\ submitted.frequency # <<>>
        /\ submitted.age # <<>> /\ submitted.backgroundFreq # <<>>
        /\ submitted.maternalScreenTime # <<>>
        /\ data.duration = submitted.duration[1]
        /\ data.frequency = submitted.frequency[1]
        /\ data.age = submitted.age[1]
        /\ data.backgroundFreq = submitted.backgroundFreq[1]
        /\ data.maternalScreenTime = submitted.maternalScreenTime[1]
        /\ data.duration >= 0 /\ data.frequency >= 0 /\ data.maternalScreenTime >= 0
        /\ data.age >= 12 /\ data.age <= 60
        /\ data.backgroundFreq >= 0 /\ data.backgroundFreq <= 5

\* a form at the edge of the age range has been submitted and scored
BoundaryAgeScored == Scored /\ submitted # Null /\ data.age = 12

\* C7: scenario A gives 6, 7, 6, 7, 6, 5 points and harmLevel Medium.
ScenarioAResult ==
    (Scored /\ data = ScenarioA) =>
        /\ results.scores = [vocabulary |-> 12, mentalVerb |-> 14, expressive |-> 12,
                             verbalInteraction |-> 14, sentenceComp |-> 12,
                             socialLang |-> 10]
        /\ results.harmLevel = "Medium"

ScenarioAScored == Scored /\ data = ScenarioA /\ StoredSum = 2 * 37

\* C8: scenario B clamps all six sub-scores to 0 and gives harmLevel High.
ScenarioBResult ==
    (Scored /\ data = ScenarioB) =>
        /\ \A k \in Keys : results.scores[k] = 0
        /\ results.harmLevel = "High"

ScenarioBScored == Scored /\ data = ScenarioB /\ \A k \in Keys : unclamped[k] < 0

\* C9: suggestions is the fixed three-entry lookup of harmLevel.
SuggestionsFromHarmLevel ==
    Scored =>
        /\ results.harmLevel = "High" =>
            results.suggestions = "Reduce screen time, focus on mediated educational content, and increase direct interactions."
        /\ results.harmLevel = "Medium" =>
            results.suggestions = "Monitor usage; add more parental involvement for better outcomes."
        /\ results.harmLevel = "Low" =>
            results.suggestions = "Current setup seems beneficial-continue with educational focus."

\* a Low result has been stored
LowScored == Scored /\ results.harmLevel = "Low" /\ StoredSum > 6 * 14

\* C10: no sub-score exceeds 9 points before the clamp, so only the lower
\* bound of the clamp ever changes a value and stored sub-scores are in [0, 9].
CeilingNeverReached ==
    Scored =>
        \A k \in Keys :
            /\ unclamped[k] <= 18
            /\ results.scores[k] >= 0 /\ results.scores[k] <= 18
            /\ (results.scores[k] # unclamped[k] => unclamped[k] < 0)

\* a record reaching the 9-point maximum on one sub-score has been scored
NinePointsReached ==
    /\ Scored
    /\ \E k \in Keys : unclamped[k] = 18 /\ results.scores[k] = 18

----------------------------------------------------------------------------
====
